---- MODULE Spec2Model ----
(***************************************************************************)
(* Rules engine of the tile-matching puzzle with inverted gravity:         *)
(* game/gem.py, game/board.py, game/rules.py, game/gravity.py,             *)
(* game/refill.py, game/cascade.py, game/moves.py.                         *)
(*                                                                         *)
(* A board is the tuple of its rows (BoardState.rows): rows[y+1][x+1] is   *)
(* the gem at coordinate (x, y); coordinates are 0-based as in the code.   *)
(* The gem supplier is the caller's stateful callable; it is modelled as a *)
(* cyclic script with a cursor (the scripted suppliers of the tests,       *)
(* repeated for ever).                                                     *)
(***************************************************************************)
EXTENDS Integers, Sequences, FiniteSets, TLC

\* ------------------------------------------------------------------ bounds

\* Longest side of a board of the model.
MaxSide == 3
\* Largest number of cells of a board of the model.
MaxCells == 9
\* Longest board of a single row or of a single column.
MaxStrip == 5
\* Length of the supplier's script (its period).
SupplierPeriod == 2
\* Largest number of cells of a board on which the loop of resolve_cascades
\* is followed without limit (LiveSpec).
MaxLoopCells == 6
\* Largest number of loop iterations of resolve_cascades followed in Spec.
MaxRounds == 5
\* Largest number of cells of a board given to simulate_move.
MaxSimCells == 5
\* Largest number of cells of a board in the specification of all the
\* operations together (FrameSpec).
MaxFrameCells == 4
\* Largest number of rows, and longest row, of the raw row data given to
\* from_rows.
MaxRawRows == 3
MaxRawLen == 2

\* ------------------------------------------------------------------ gem.py

EMPTY == "EMPTY"

\* The colours of the model: two of the six of GemType.  The code only
\* compares gems with each other and with EMPTY.
Colours == {"RED", "BLUE"}

GemType == {EMPTY} \cup Colours

\* Variant: EMPTY not excluded from matching.
is_matchable_always(gem) == TRUE

is_matchable(gem) == gem # EMPTY

\* ------------------------------------------------------------------ board.py

width(board) == IF Len(board) = 0 THEN 0 ELSE Len(board[1])

height(board) == Len(board)

IndexError == "IndexError"

\* Variant: negative indices wrap around, as bare tuple indexing does.
get_wrapping(board, x, y) ==
    IF x >= width(board) \/ y >= height(board)
       \/ x < 0 - width(board) \/ y < 0 - height(board)
    THEN IndexError
    ELSE board[(y % height(board)) + 1][(x % width(board)) + 1]

get(board, x, y) ==
    IF x < 0 \/ y < 0 \/ x >= width(board) \/ y >= height(board)
    THEN IndexError
    ELSE board[y + 1][x + 1]

\* The boards of the model: every rectangular grid within the bounds.
Shapes ==
    {s \in (1..MaxSide) \X (1..MaxSide) : s[1] * s[2] <= MaxCells}
    \cup {<<n, 1>> : n \in 1..MaxStrip} \cup {<<1, n>> : n \in 1..MaxStrip}

Boards == UNION {[1..s[2] -> [1..s[1] -> GemType]] : s \in Shapes}

\* ------------------------------------------------------------------ rules.py

\* Variant: pairs count as matches.
MIN_MATCH_LENGTH_SHORT == 3 - 1

MIN_MATCH_LENGTH == 3

\* rules.py:43-44 and 60-61: the inner while loop that extends a run.
RECURSIVE horizontal_run_end(_, _, _, _)
horizontal_run_end(board, y, current, run_end) ==
    IF run_end < width(board) /\ get(board, run_end, y) = current
    THEN horizontal_run_end(board, y, current, run_end + 1)
    ELSE run_end

RECURSIVE vertical_run_end(_, _, _, _)
vertical_run_end(board, x, current, run_end) ==
    IF run_end < height(board) /\ get(board, x, run_end) = current
    THEN vertical_run_end(board, x, current, run_end + 1)
    ELSE run_end

\* rules.py:39-49: the outer while loop over one row, from column x on.
RECURSIVE horizontal_scan(_, _, _)
horizontal_scan(board, y, x) ==
    IF x >= width(board) THEN {}
    ELSE LET current == get(board, x, y)
             run_end == horizontal_run_end(board, y, current, x + 1)
             run_length == run_end - x
         IN  (IF is_matchable(current) /\ run_length >= MIN_MATCH_LENGTH
              THEN {<<match_x, y>> : match_x \in x..(run_end - 1)}
              ELSE {})
             \cup horizontal_scan(board, y, run_end)

\* rules.py:56-66: the outer while loop over one column, from row y on.
RECURSIVE vertical_scan(_, _, _)
vertical_scan(board, x, y) ==
    IF y >= height(board) THEN {}
    ELSE LET current == get(board, x, y)
             run_end == vertical_run_end(board, x, current, y + 1)
             run_length == run_end - y
         IN  (IF is_matchable(current) /\ run_length >= MIN_MATCH_LENGTH
              THEN {<<x, match_y>> : match_y \in y..(run_end - 1)}
              ELSE {})
             \cup vertical_scan(board, x, run_end)

add_horizontal_matches(board) ==
    UNION {horizontal_scan(board, y, 0) : y \in 0..(height(board) - 1)}

\* Variant: the vertical pass left out.
add_vertical_matches_skipped(board) == {}

add_vertical_matches(board) ==
    UNION {vertical_scan(board, x, 0) : x \in 0..(width(board) - 1)}

find_matches(board) ==
    add_horizontal_matches(board) \cup add_vertical_matches(board)

\* Variant: nothing is cleared.
remove_matches_none(board, matches) == board

\* rules.remove_matches is imported by cascade.py; its body is not in the
\* sources, it is taken from the specification (section 4.3).
remove_matches(board, matches) ==
    [y \in 1..height(board) |->
        [x \in 1..width(board) |->
            IF <<x - 1, y - 1>> \in matches THEN EMPTY ELSE board[y][x]]]

\* ------------------------------------------------------------------ gravity.py

is_not_empty(gem) == gem # EMPTY

\* Variant: gems sink, the EMPTY cells come first.
gravity_column_sinking(column) ==
    LET non_empty == SelectSeq(column, is_not_empty)
        empty_count == Len(column) - Len(non_empty)
    IN  [i \in 1..empty_count |-> EMPTY] \o non_empty

\* Variant: only the topmost gap of the column is closed.
gravity_column_first_gap(column) ==
    LET gaps == {i \in 1..Len(column) : column[i] = EMPTY}
    IN  IF gaps = {} THEN column
        ELSE LET g == CHOOSE i \in gaps : \A j \in gaps : i <= j
             IN  [i \in 1..Len(column) |->
                     IF i < g THEN column[i]
                     ELSE IF i < Len(column) THEN column[i + 1]
                     ELSE EMPTY]

\* gravity.py:28-31: one column, top to bottom, after gravity.
gravity_column(column) ==
    LET non_empty == SelectSeq(column, is_not_empty)
        empty_count == Len(column) - Len(non_empty)
    IN  non_empty \o [i \in 1..empty_count |-> EMPTY]

apply_gravity(board) ==
    LET h == height(board)
        w == width(board)
        columns == [x \in 0..(w - 1) |->
                       gravity_column([y \in 1..h |-> get(board, x, y - 1)])]
    IN  [y \in 1..h |-> [x \in 1..w |-> columns[x - 1][y]]]

\* ------------------------------------------------------------------ supplier

\* gem_supplier: a zero-argument callable owned by the caller.  Its state is
\* the script it replays and the cursor of the next value.
ScriptedSuppliers(gems) ==
    {[script |-> s, pos |-> 1] : s \in [1..SupplierPeriod -> gems]}

\* The suppliers that keep the contract (never EMPTY), and all of them.
Suppliers == ScriptedSuppliers(Colours)

AnySuppliers == ScriptedSuppliers(GemType)

\* The suppliers that keep returning the same colour.
OneColourSuppliers ==
    {sup \in Suppliers : \A i \in DOMAIN sup.script : sup.script[i] = sup.script[1]}

NoSupplier == [script |-> <<>>, pos |-> 1]

\* The value the next call returns.
supplier_gem(sup) == sup.script[sup.pos]

\* The supplier after one call.
supplier_advance(sup) == [sup EXCEPT !.pos = (sup.pos % Len(sup.script)) + 1]


\* ------------------------------------------------------------------ refill.py

\* No board: what a call that raised hands back.
NoBoard == <<>>

\* Variant: columns scanned from the top row down.
refill_cell_top_down(board, i) ==
    LET h == height(board)
    IN  <<(i - 1) \div h, (i - 1) % h>>

\* refill.py:35-36: the i-th cell visited by the two nested loops
\* (x ascending, and y from height - 1 down to 0 inside a column).
refill_cell(board, i) ==
    LET h == height(board)
    IN  <<(i - 1) \div h, (h - 1) - ((i - 1) % h)>>

\* Variant: every cell is refilled.
needs_refill_always(board, x, y) == TRUE

\* refill.py:37: the test that decides whether the supplier is invoked.
needs_refill(board, x, y) == get(board, x, y) = EMPTY

\* Variant: the supplied gem is not checked.
is_contract_violation_never(supplied) == FALSE

\* refill.py:39: the supplier contract check.
is_contract_violation(supplied) == supplied = EMPTY

\* refill.py:35-41 from the i-th visited cell on.
RECURSIVE refill_loop(_, _, _, _, _)
refill_loop(board, new_rows, i, sup, n) ==
    IF i > width(board) * height(board)
    THEN [status |-> "Returned", rows |-> new_rows, sup |-> sup, calls |-> n]
    ELSE LET x == refill_cell(board, i)[1]
             y == refill_cell(board, i)[2]
         IN  IF needs_refill(board, x, y)
             THEN LET supplied == supplier_gem(sup)
                      after == supplier_advance(sup)
                  IN  IF is_contract_violation(supplied)
                      THEN [status |-> "Raised", rows |-> NoBoard,
                            sup |-> after, calls |-> n + 1]
                      ELSE refill_loop(board,
                               [new_rows EXCEPT ![y + 1][x + 1] = supplied],
                               i + 1, after, n + 1)
             ELSE refill_loop(board, new_rows, i + 1, sup, n)

\* refill_board: status, the new rows, the supplier afterwards and the
\* number of supplier calls made.
refill_board(board, sup) == refill_loop(board, board, 1, sup, 0)

\* ------------------------------------------------------------------ cascade.py

\* cascade.py:39-43
has_empty(board) ==
    \E y \in 1..height(board) : \E x \in 1..width(board) : board[y][x] = EMPTY

\* Variant: the loop returns as soon as the board has no EMPTY cell, whether
\* or not the scan found a match.
loop_returns_when_full(matches, cur) == ~has_empty(cur)

\* Variant: the loop returns from any scan without a match, EMPTY cells or
\* not.
loop_returns_without_match(matches, cur) == matches = {}

\* cascade.py:38-45: the iteration returns current.
loop_returns(matches, cur) == matches = {} /\ ~has_empty(cur)

\* cascade.py:38 and 49: the board that gravity is applied to, current itself
\* when the scan found nothing and current without its matches otherwise.
cleared_board(cur, matches) ==
    IF matches = {} THEN cur ELSE remove_matches(cur, matches)

\* cascade.py:26-51 as a function: the outcome of the loop after at most n
\* iterations, "Scanning" when it has not ended by then.
RECURSIVE resolve_cascades(_, _, _)
resolve_cascades(cur, sup, n) ==
    IF n = 0
    THEN [state |-> "Scanning", board |-> cur, sup |-> sup]
    ELSE LET matches == find_matches(cur)
         IN  IF loop_returns(matches, cur)
             THEN [state |-> "Stable", board |-> cur, sup |-> sup]
             ELSE LET r == refill_board(
                              apply_gravity(cleared_board(cur, matches)), sup)
                  IN  IF r.status = "Raised"
                      THEN [state |-> "Raised", board |-> NoBoard,
                            sup |-> r.sup]
                      ELSE resolve_cascades(r.rows, r.sup, n - 1)

\* ------------------------------------------------------------------ moves.py

RIGHT_OFFSET == <<1, 0>>

DOWN_OFFSET == <<0, 1>>

\* moves.py:123-126
is_in_bounds(board, x, y) ==
    0 <= x /\ x < width(board) /\ 0 <= y /\ y < height(board)

\* Variant: the down neighbour is checked before the right neighbour.
enumerate_adjacent_swaps_down_first(board, x, y) ==
    LET neighbors == <<<<x + DOWN_OFFSET[1], y + DOWN_OFFSET[2]>>,
                       <<x + RIGHT_OFFSET[1], y + RIGHT_OFFSET[2]>>>>
        is_legal(n) == /\ is_in_bounds(board, n[1], n[2])
                       /\ get(board, n[1], n[2]) # EMPTY
        legal == SelectSeq(neighbors, is_legal)
    IN  [k \in 1..Len(legal) |-> <<<<x, y>>, legal[k]>>]

\* moves.py:107-120: the swaps of one source cell, right before down.
enumerate_adjacent_swaps(board, x, y) ==
    LET neighbors == <<<<x + RIGHT_OFFSET[1], y + RIGHT_OFFSET[2]>>,
                       <<x + DOWN_OFFSET[1], y + DOWN_OFFSET[2]>>>>
        is_legal(n) == /\ is_in_bounds(board, n[1], n[2])
                       /\ get(board, n[1], n[2]) # EMPTY
        legal == SelectSeq(neighbors, is_legal)
    IN  [k \in 1..Len(legal) |-> <<<<x, y>>, legal[k]>>]

\* moves.py:41-45: the two loops, from the i-th cell in row-major order on
\* (i counted from 0).
RECURSIVE enumerate_swaps_from(_, _)
enumerate_swaps_from(board, i) ==
    IF i >= width(board) * height(board) THEN <<>>
    ELSE LET x == i % width(board)
             y == i \div width(board)
         IN  (IF get(board, x, y) = EMPTY
              THEN <<>>
              ELSE enumerate_adjacent_swaps(board, x, y))
             \o enumerate_swaps_from(board, i + 1)

\* moves.py:32-46
enumerate_swaps(board) == enumerate_swaps_from(board, 0)

\* Variant: the exchange is made only for a swap of two adjacent gems.
apply_swap_validated(board, swap) ==
    IF /\ get(board, swap[1][1], swap[1][2]) # EMPTY
       /\ get(board, swap[2][1], swap[2][2]) # EMPTY
       /\ (swap[1][1] - swap[2][1]) * (swap[1][1] - swap[2][1])
          + (swap[1][2] - swap[2][2]) * (swap[1][2] - swap[2][2]) = 1
    THEN [row \in 1..height(board) |->
            [col \in 1..width(board) |->
                IF <<col - 1, row - 1>> = swap[1]
                THEN get(board, swap[2][1], swap[2][2])
                ELSE IF <<col - 1, row - 1>> = swap[2]
                THEN get(board, swap[1][1], swap[1][2])
                ELSE get(board, col - 1, row - 1)]]
    ELSE board

\* moves.py:87-104: the board with the gems of the two cells exchanged; both
\* cells are read with get first (moves.py:91-92).
apply_swap(board, swap) ==
    LET first_gem == get(board, swap[1][1], swap[1][2])
        second_gem == get(board, swap[2][1], swap[2][2])
    IN  [row \in 1..height(board) |->
            [col \in 1..width(board) |->
                IF <<col - 1, row - 1>> = swap[1] THEN second_gem
                ELSE IF <<col - 1, row - 1>> = swap[2] THEN first_gem
                ELSE get(board, col - 1, row - 1)]]

\* Variant: EMPTY endpoints are not looked at.
is_productive_swap_any_cell(board, swap) ==
    IF get(board, swap[1][1], swap[1][2]) = IndexError
       \/ get(board, swap[2][1], swap[2][2]) = IndexError
    THEN [status |-> "Raised", value |-> FALSE]
    ELSE [status |-> "Returned",
          value |-> find_matches(apply_swap(board, swap)) # {}]

\* Variant: only a run that the board did not have before the exchange
\* counts.
is_productive_swap_new_match(board, swap) ==
    IF get(board, swap[1][1], swap[1][2]) = IndexError
    THEN [status |-> "Raised", value |-> FALSE]
    ELSE IF get(board, swap[1][1], swap[1][2]) = EMPTY
    THEN [status |-> "Returned", value |-> FALSE]
    ELSE IF get(board, swap[2][1], swap[2][2]) = IndexError
    THEN [status |-> "Raised", value |-> FALSE]
    ELSE IF get(board, swap[2][1], swap[2][2]) = EMPTY
    THEN [status |-> "Returned", value |-> FALSE]
    ELSE [status |-> "Returned",
          value |-> find_matches(apply_swap(board, swap))
                        \ find_matches(board) # {}]

\* moves.py:49-61; status is "Raised" when a get raised IndexError.
is_productive_swap(board, swap) ==
    IF get(board, swap[1][1], swap[1][2]) = IndexError
    THEN [status |-> "Raised", value |-> FALSE]
    ELSE IF get(board, swap[1][1], swap[1][2]) = EMPTY
    THEN [status |-> "Returned", value |-> FALSE]
    ELSE IF get(board, swap[2][1], swap[2][2]) = IndexError
    THEN [status |-> "Raised", value |-> FALSE]
    ELSE IF get(board, swap[2][1], swap[2][2]) = EMPTY
    THEN [status |-> "Returned", value |-> FALSE]
    ELSE [status |-> "Returned",
          value |-> find_matches(apply_swap(board, swap)) # {}]

\* moves.py:64-67: the swaps of the list that are productive, in the order
\* of the list; an IndexError of one of them ends the call.
filter_productive_swaps(board, swaps) ==
    LET is_kept(swap) == is_productive_swap(board, swap).value
    IN  IF \E k \in DOMAIN swaps :
               is_productive_swap(board, swaps[k]).status = "Raised"
        THEN [status |-> "Raised", value |-> <<>>]
        ELSE [status |-> "Returned", value |-> SelectSeq(swaps, is_kept)]

\* ------------------------------------------------------------------ state

VARIABLES
    board,        \* the board the caller passes in
    supplier,     \* the state of the caller's gem supplier
    op,           \* the operation called: "none" before the call
    pc,           \* "Idle", "Scanning", "Stable", "Returned" or "Raised"
    current,      \* resolve_cascades: the local variable current
    result,       \* the board returned, NoBoard while there is none
    found,        \* the match set returned by find_matches
    calls,        \* number of supplier calls made by the operation
    rounds,       \* resolve_cascades: loop iterations completed
    cleared,      \* resolve_cascades: cells cleared so far, over all rounds
    everCleared,  \* resolve_cascades: some iteration removed matches
    lastStep,     \* resolve_cascades: branch taken by the last iteration
    first,        \* the board returned by the call before the last one
    arg,          \* the other argument of the call: a match set, a
                  \* coordinate, a swap, a swap list or raw rows
    value         \* the value returned when it is not a board

vars == <<board, supplier, op, pc, current, result, found, calls, rounds,
          cleared, everCleared, lastStep, first, arg, value>>

\* No argument, no value.
None == "None"

\* Nothing has been called yet.
Init ==
    /\ board = NoBoard
    /\ supplier = NoSupplier
    /\ op = "none"
    /\ pc = "Idle"
    /\ current = NoBoard
    /\ result = NoBoard
    /\ found = {}
    /\ calls = 0
    /\ rounds = 0
    /\ cleared = 0
    /\ everCleared = FALSE
    /\ lastStep = "none"
    /\ first = NoBoard
    /\ arg = None
    /\ value = None

\* ------------------------------------------------------------------ resolve_cascades

\* cascade.py:26,35: the call, with a board and a supplier of the caller's;
\* current is bound to the argument.
CallResolve(boards, suppliers) ==
    /\ pc = "Idle"
    /\ board' \in boards
    /\ supplier' \in suppliers
    /\ current' = board'
    /\ op' = "resolve_cascades"
    /\ pc' = "Scanning"
    /\ UNCHANGED <<result, found, calls, rounds, cleared, everCleared,
                   lastStep, first, arg, value>>

\* cascade.py:37-51: one iteration of the loop: the scan, then either the
\* return or the clear, gravity and the refill.  pc is "Stable" when the
\* iteration returns, "Scanning" when the loop goes round again and "Raised"
\* when refill_board raised.  With counted, the counters of the call are kept
\* (and the loop is followed only up to MaxRounds iterations); without, they
\* are left alone and the loop is followed without limit.
ResolveRound(counted) ==
    /\ pc = "Scanning"
    /\ op \in {"resolve_cascades", "simulate_move"}
    /\ counted => rounds < MaxRounds
    /\ \E matches \in {find_matches(current)} :
           IF loop_returns(matches, current)
           THEN /\ pc' = "Stable"
                /\ result' = current
                /\ lastStep' = "return"
                /\ IF counted THEN rounds' = rounds + 1 ELSE rounds' = rounds
                /\ UNCHANGED <<current, supplier, calls, cleared, everCleared>>
           ELSE \E removed \in {cleared_board(current, matches)} :
                \E settled \in {apply_gravity(removed)} :
                \E r \in {refill_board(settled, supplier)} :
                    /\ pc' = IF r.status = "Raised" THEN "Raised" ELSE "Scanning"
                    /\ current' = r.rows
                    /\ supplier' = r.sup
                    /\ result' = NoBoard
                    /\ everCleared' = (everCleared \/ matches # {})
                    /\ lastStep' = IF matches = {} THEN "settle" ELSE "clear"
                    /\ IF counted
                       THEN /\ calls' = calls + r.calls
                            /\ rounds' = rounds + 1
                            /\ cleared' = cleared + Cardinality(matches)
                       ELSE UNCHANGED <<calls, rounds, cleared>>
    /\ UNCHANGED <<board, op, found, first, arg, value>>

Call == CallResolve(Boards, AnySuppliers)

Scan == ResolveRound(TRUE)

Next == Call \/ Scan

Spec == Init /\ [][Next]_vars

\* The loop without the model's limit on iterations, called on a small board
\* with a supplier that keeps the contract and keeps returning one colour.
\* The call is synchronous and single-threaded: an iteration that can run
\* does run.
LoopBoards == {b \in Boards : width(b) * height(b) <= MaxLoopCells}

LoopCall == CallResolve(LoopBoards, OneColourSuppliers)

LoopScan == ResolveRound(FALSE)

LoopNext == LoopCall \/ LoopScan

LiveSpec == Init /\ [][LoopNext]_vars /\ WF_vars(LoopNext)

\* ------------------------------------------------------------------ the transforms

\* gravity.py:21: apply_gravity on a board of the caller's.
CallGravity ==
    /\ pc = "Idle"
    /\ \E b \in Boards :
           /\ board' = b
           /\ result' = apply_gravity(b)
    /\ op' = "apply_gravity"
    /\ pc' = "Returned"
    /\ UNCHANGED <<supplier, current, found, calls, rounds, cleared,
                   everCleared, lastStep, first, arg, value>>

\* apply_gravity on the board the previous call returned.
CallGravityAgain ==
    /\ pc = "Returned"
    /\ op = "apply_gravity"
    /\ first' = result
    /\ result' = apply_gravity(result)
    /\ op' = "apply_gravity_again"
    /\ UNCHANGED <<board, supplier, pc, current, found, calls, rounds,
                   cleared, everCleared, lastStep, arg, value>>

GravityNext == CallGravity \/ CallGravityAgain

GravitySpec == Init /\ [][GravityNext]_vars

\* rules.py:26: find_matches on a board of the caller's.
CallFindMatches ==
    /\ pc = "Idle"
    /\ \E b \in Boards :
           /\ board' = b
           /\ found' = find_matches(b)
    /\ op' = "find_matches"
    /\ pc' = "Returned"
    /\ UNCHANGED <<supplier, current, result, calls, rounds, cleared,
                   everCleared, lastStep, first, arg, value>>

MatchSpec == Init /\ [][CallFindMatches]_vars

\* refill.py:23: refill_board on a board and with a supplier of the
\* caller's; the supplier may break the contract.
CallRefill ==
    /\ pc = "Idle"
    /\ \E b \in Boards, sup \in AnySuppliers :
           \E r \in {refill_board(b, sup)} :
               /\ board' = b
               /\ supplier' = r.sup
               /\ result' = r.rows
               /\ calls' = r.calls
               /\ pc' = r.status
    /\ op' = "refill_board"
    /\ UNCHANGED <<current, found, rounds, cleared, everCleared, lastStep,
                   first, arg, value>>

RefillSpec == Init /\ [][CallRefill]_vars

\* ------------------------------------------------------------------ vocabulary of the properties

\* The coordinates of a board and the gem at a coordinate.
Cells(b) == (0..(width(b) - 1)) \X (0..(height(b) - 1))

At(b, c) == b[c[2] + 1][c[1] + 1]

SameShape(a, b) == width(a) = width(b) /\ height(a) = height(b)

EmptyCells(b) == {c \in Cells(b) : At(b, c) = EMPTY}

NoEmptyCell(b) == EmptyCells(b) = {}

\* c lies in three consecutive cells of its row (of its column) that all
\* hold the gem of c.
InRowOfThree(b, c) ==
    \E s \in (c[1] - 2)..c[1] :
        /\ s >= 0
        /\ s + 2 <= width(b) - 1
        /\ \A k \in s..(s + 2) : At(b, <<k, c[2]>>) = At(b, c)

InColumnOfThree(b, c) ==
    \E s \in (c[2] - 2)..c[2] :
        /\ s >= 0
        /\ s + 2 <= height(b) - 1
        /\ \A k \in s..(s + 2) : At(b, <<c[1], k>>) = At(b, c)

\* The cells of a board that hold a gem and lie in a run of at least three.
Matched(b) ==
    {c \in Cells(b) : At(b, c) # EMPTY
                      /\ (InRowOfThree(b, c) \/ InColumnOfThree(b, c))}

\* A stable board: no EMPTY cell and no run of three.
IsStableBoard(b) == NoEmptyCell(b) /\ Matched(b) = {}

\* The k-th value (k >= 1) the supplier of the call returns, counted from
\* the start of the call; every call of the model starts at the script's
\* first value.
Supplied(k) == supplier.script[((k - 1) % Len(supplier.script)) + 1]

KeepsSameColour(sup) ==
    /\ sup.script # <<>>
    /\ sup.script[1] # EMPTY
    /\ \A i \in DOMAIN sup.script : sup.script[i] = sup.script[1]

\* ------------------------------------------------------------------ C1

\* C1: whenever resolve_cascades returns, for a supplier that never returns
\* EMPTY, the returned board has the shape of the input, contains no EMPTY
\* cell and has no match: find_matches of it is empty and no gem lies in a
\* run of three.
C1_ReturnedBoardIsStable ==
    pc = "Stable" =>
        /\ result = current
        /\ SameShape(result, board)
        /\ NoEmptyCell(result)
        /\ find_matches(result) = {}
        /\ Matched(result) = {}

\* A call that cleared matches and then returned a board other than its input.
C1_Witness ==
    /\ pc = "Stable"
    /\ everCleared
    /\ result # board
    /\ width(board) = 3 /\ height(board) = 3

\* ------------------------------------------------------------------ C2

\* C2 as claimed: for every board and every supplier that never returns
\* EMPTY, the loop of resolve_cascades eventually reaches Stable and returns.
C2_AlwaysReturns == <>(pc = "Stable")

\* C2 as amended: the loop has no iteration cap and does not return for
\* every supplier: with a supplier that keeps returning the same colour, a
\* call in which some iteration cleared a match is still scanning, it never
\* returns (and never fails).
C2_SameColourNeverSettles ==
    (KeepsSameColour(supplier) /\ everCleared) => pc = "Scanning"

\* A call with a one-colour supplier that is back at its input board after
\* clearing and refilling it: the loop has closed.
C2_Witness ==
    /\ KeepsSameColour(supplier)
    /\ everCleared
    /\ lastStep = "clear"
    /\ pc = "Scanning"
    /\ current = board

\* ------------------------------------------------------------------ C3

\* C3: for a board with no match and no EMPTY cell, resolve_cascades returns
\* from its first scan a board equal to the input, and the supplier is
\* never called, whatever it would return.
C3_StableBoardReturnedUntouched ==
    (op = "resolve_cascades" /\ IsStableBoard(board)) =>
        /\ calls = 0
        /\ supplier.pos = 1
        /\ cleared = 0
        /\ \/ pc = "Scanning" /\ rounds = 0
           \/ pc = "Stable" /\ rounds = 1 /\ result = board

\* A stable 3 x 3 board returned, with a supplier whose next value is EMPTY.
C3_Witness ==
    /\ op = "resolve_cascades"
    /\ IsStableBoard(board)
    /\ width(board) = 3 /\ height(board) = 3
    /\ pc = "Stable"
    /\ Supplied(1) = EMPTY

\* ------------------------------------------------------------------ C5

\* C5: a refill_board call that returns made exactly as many supplier calls
\* as the input has EMPTY cells; every cell that held a gem holds it in the
\* output, and the output has no EMPTY cell.
C5_RefillExact ==
    (op = "refill_board" /\ pc = "Returned") =>
        /\ calls = Cardinality(EmptyCells(board))
        /\ SameShape(result, board)
        /\ \A c \in Cells(board) :
               At(board, c) # EMPTY => At(result, c) = At(board, c)
        /\ NoEmptyCell(result)

\* A refill of a board with at least two gaps and two gems.
C5_Witness ==
    /\ op = "refill_board"
    /\ pc = "Returned"
    /\ calls >= 2
    /\ Cardinality(Cells(board) \ EmptyCells(board)) >= 2

\* A refill of a board without EMPTY cells: no supplier call.
C5_WitnessFull ==
    /\ op = "refill_board"
    /\ pc = "Returned"
    /\ calls = 0
    /\ result = board

\* ------------------------------------------------------------------ C6

\* The EMPTY cells refill_board is to fill before c: those in a column to
\* the left, and those lower in the column of c.
FilledBefore(b, c) ==
    {d \in EmptyCells(b) : d[1] < c[1] \/ (d[1] = c[1] /\ d[2] > c[2])}

\* C6: refill_board gives the k-th value of the supplier to the k-th EMPTY
\* cell in the order columns left to right, bottom row upward in a column.
C6_RefillOrder ==
    (op = "refill_board" /\ pc = "Returned") =>
        \A c \in EmptyCells(board) :
            At(result, c) = Supplied(Cardinality(FilledBefore(board, c)) + 1)

\* The empty 2 x 2 board refilled from RED, BLUE, RED, BLUE.
C6_Witness ==
    /\ op = "refill_board"
    /\ pc = "Returned"
    /\ board = <<<<EMPTY, EMPTY>>, <<EMPTY, EMPTY>>>>
    /\ supplier.script = <<"RED", "BLUE">>
    /\ result = <<<<"BLUE", "BLUE">>, <<"RED", "RED">>>>

\* ------------------------------------------------------------------ C7

\* C7: refill_board raises exactly when one of the values the supplier
\* returns for the EMPTY cells is EMPTY; it then returns no board, and the
\* offending call is the last supplier call.
C7_EmptySupplyRaises ==
    op = "refill_board" =>
        /\ pc = "Raised" <=>
               \E k \in 1..Cardinality(EmptyCells(board)) : Supplied(k) = EMPTY
        /\ pc = "Raised" =>
               /\ result = NoBoard
               /\ calls >= 1
               /\ Supplied(calls) = EMPTY
               /\ \A k \in 1..(calls - 1) : Supplied(k) # EMPTY
               /\ supplier.pos = (calls % Len(supplier.script)) + 1

\* A refill that raised on its second supplier call with gaps left to fill.
C7_Witness ==
    /\ op = "refill_board"
    /\ pc = "Raised"
    /\ calls = 2
    /\ Cardinality(EmptyCells(board)) >= 3

\* ------------------------------------------------------------------ C8

Column(b, x) == [y \in 1..height(b) |-> b[y][x + 1]]

GemsOf(column) == SelectSeq(column, is_not_empty)

\* C8: apply_gravity keeps the shape and, in every column, the gems in
\* their top-to-bottom order; in the output no EMPTY cell lies above a gem;
\* a column without EMPTY and a column of EMPTY only are unchanged.
C8_GravityCompactsColumns ==
    op = "apply_gravity" =>
        /\ SameShape(result, board)
        /\ \A x \in 0..(width(board) - 1) :
               LET in == Column(board, x)
                   out == Column(result, x)
               IN  /\ GemsOf(out) = GemsOf(in)
                   /\ \A y \in 1..(Len(out) - 1) :
                          out[y] = EMPTY => out[y + 1] = EMPTY
                   /\ out[1] = EMPTY => \A y \in 1..Len(out) : in[y] = EMPTY
                   /\ (\A y \in 1..Len(in) : in[y] # EMPTY) => out = in
                   /\ (\A y \in 1..Len(in) : in[y] = EMPTY) => out = in

\* The column EMPTY, BLUE, EMPTY, RED, EMPTY becomes BLUE, RED, EMPTY, EMPTY, EMPTY.
C8_Witness ==
    /\ op = "apply_gravity"
    /\ board = <<<<EMPTY>>, <<"BLUE">>, <<EMPTY>>, <<"RED">>, <<EMPTY>>>>
    /\ result = <<<<"BLUE">>, <<"RED">>, <<EMPTY>>, <<EMPTY>>, <<EMPTY>>>>

\* ------------------------------------------------------------------ C9

\* Every EMPTY cell of the board has only EMPTY cells below it.
EmptiesAtBottom(b) ==
    \A c \in EmptyCells(b) :
        \A y \in c[2]..(height(b) - 1) : At(b, <<c[1], y>>) = EMPTY

\* C9: apply_gravity applied to its own output returns that output; a board
\* whose EMPTY cells are all at the bottom of their columns is returned
\* equal to the input.
C9_GravityIdempotent ==
    /\ op = "apply_gravity_again" => result = first
    /\ (op = "apply_gravity" /\ EmptiesAtBottom(board)) => result = board

\* Gravity applied again to a board that the first application changed, in a
\* column with two gaps above a gem.
C9_Witness ==
    /\ op = "apply_gravity_again"
    /\ first # board
    /\ \E x \in 0..(width(board) - 1) :
           /\ height(board) >= 3
           /\ At(board, <<x, 0>>) = EMPTY
           /\ At(board, <<x, 1>>) = EMPTY
           /\ At(board, <<x, 2>>) # EMPTY

\* ------------------------------------------------------------------ C10

\* C10: find_matches returns exactly the coordinates of the cells that hold
\* a gem and lie in a horizontal or vertical run of at least three equal
\* gems.
C10_FindMatchesExact ==
    op = "find_matches" =>
        /\ found = Matched(board)
        /\ \A c \in found : c \in Cells(board) /\ At(board, c) # EMPTY

\* A horizontal and a vertical run crossing in one cell, beside a row of
\* EMPTY cells that is not a match.
C10_Witness ==
    /\ op = "find_matches"
    /\ width(board) = 3 /\ height(board) = 3
    /\ Cardinality(found) = 5
    /\ \E c \in found : InRowOfThree(board, c) /\ InColumnOfThree(board, c)

\* A run of five in a single row: all five cells, once each.
C10_WitnessLongRun ==
    /\ op = "find_matches"
    /\ width(board) = 5
    /\ Cardinality(found) = 5

\* ------------------------------------------------------------------ C11

\* rules.remove_matches on a board and a set of its coordinates, both of the
\* caller's.
CallRemoveMatches ==
    /\ pc = "Idle"
    /\ board' \in LoopBoards
    /\ arg' \in SUBSET Cells(board')
    /\ result' = remove_matches(board', arg')
    /\ op' = "remove_matches"
    /\ pc' = "Returned"
    /\ UNCHANGED <<supplier, current, found, calls, rounds, cleared,
                   everCleared, lastStep, first, value>>

RemoveSpec == Init /\ [][CallRemoveMatches]_vars

\* C11: remove_matches returns a board of the input's shape in which every
\* coordinate of the match set holds EMPTY and every other cell holds the
\* input's gem; with the empty match set the output equals the input.
C11_RemoveClearsExactly ==
    op = "remove_matches" =>
        /\ SameShape(result, board)
        /\ \A c \in Cells(board) :
               At(result, c) = IF c \in arg THEN EMPTY ELSE At(board, c)
        /\ arg = {} => result = board

\* A row of three gems cleared from a 3 x 2 board whose other row is kept.
C11_Witness ==
    /\ op = "remove_matches"
    /\ width(board) = 3 /\ height(board) = 2
    /\ arg = {<<0, 0>>, <<1, 0>>, <<2, 0>>}
    /\ NoEmptyCell(board)
    /\ Cardinality(EmptyCells(result)) = 3
    /\ result[2] = board[2]

\* The empty match set on a board with gems.
C11_WitnessEmptySet ==
    /\ op = "remove_matches"
    /\ arg = {}
    /\ NoEmptyCell(board)
    /\ result = board

\* ------------------------------------------------------------------ C12, C13

\* A cell value that is not a member of GemType (None in test_board.py:59).
InvalidCell == "InvalidCell"

\* The raw row data a caller may give: any sequence of sequences of values.
RawRows ==
    LET RawRow == UNION {[1..n -> GemType \cup {InvalidCell}] : n \in 0..MaxRawLen}
    IN  UNION {[1..n -> RawRow] : n \in 0..MaxRawRows}

\* Variant: no validation at all.
from_rows_unchecked(rows) == [status |-> "Returned", rows |-> rows]

\* board.py:53-72: BoardState.from_rows; the rows are frozen as they are.
from_rows(rows) ==
    LET row_lengths == {Len(rows[i]) : i \in DOMAIN rows}
    IN  IF rows = <<>>
        THEN [status |-> "Raised", rows |-> NoBoard]
        ELSE IF 0 \in row_lengths
        THEN [status |-> "Raised", rows |-> NoBoard]
        ELSE IF Cardinality(row_lengths) # 1
        THEN [status |-> "Raised", rows |-> NoBoard]
        ELSE [status |-> "Returned", rows |-> rows]

CallFromRows ==
    /\ pc = "Idle"
    /\ arg' \in RawRows
    /\ \E r \in {from_rows(arg')} :
           /\ result' = r.rows
           /\ pc' = r.status
    /\ op' = "from_rows"
    /\ UNCHANGED <<board, supplier, current, found, calls, rounds, cleared,
                   everCleared, lastStep, first, value>>

ConstructSpec == Init /\ [][CallFromRows]_vars

HasInvalidCell(rows) ==
    \E i \in DOMAIN rows : \E j \in DOMAIN rows[i] : rows[i][j] = InvalidCell

IsRectangular(rows) ==
    /\ rows # <<>>
    /\ \A i \in DOMAIN rows : Len(rows[i]) >= 1
    /\ \A i, j \in DOMAIN rows : Len(rows[i]) = Len(rows[j])

\* C12 as claimed: from_rows fails, constructing no board, when a cell of
\* the rows is not a gem value.
C12_InvalidCellsRejected ==
    (op = "from_rows" /\ HasInvalidCell(arg)) =>
        pc = "Raised" /\ result = NoBoard

C13_WitnessBoard ==
    /\ op = "from_rows"
    /\ pc = "Returned"
    /\ width(result) = 2 /\ height(result) = 3
    /\ ~HasInvalidCell(arg)
    /\ get(result, 1, 2) = arg[3][2]

\* ------------------------------------------------------------------ C14

\* The coordinates a caller may ask for: inside and outside of every board,
\* on both sides.
Coordinates == (-2..MaxStrip) \X (-2..MaxStrip)

\* board.py:42-51: BoardState.get on a board and a coordinate of the
\* caller's; it returns a gem or raises IndexError.
CallGet ==
    /\ pc = "Idle"
    /\ board' \in LoopBoards
    /\ arg' \in Coordinates
    /\ value' = get(board', arg'[1], arg'[2])
    /\ pc' = IF value' = IndexError THEN "Raised" ELSE "Returned"
    /\ op' = "get"
    /\ UNCHANGED <<supplier, current, result, found, calls, rounds, cleared,
                   everCleared, lastStep, first>>

GetSpec == Init /\ [][CallGet]_vars

\* C14: get fails with the bounds error for every coordinate with x < 0,
\* y < 0, x >= width or y >= height, returning no gem, and returns the
\* stored gem for every coordinate inside the board.
C14_GetChecksBounds ==
    op = "get" =>
        LET x == arg[1]
            y == arg[2]
            outside == x < 0 \/ y < 0 \/ x >= width(board) \/ y >= height(board)
        IN  /\ outside => pc = "Raised" /\ value = IndexError /\ value \notin GemType
            /\ ~outside => pc = "Returned" /\ value = At(board, arg)
                                           /\ value \in GemType

\* A negative x that bare indexing would wrap to the last column.
C14_Witness ==
    /\ op = "get"
    /\ width(board) = 2 /\ height(board) = 1
    /\ arg = <<-1, 0>>
    /\ pc = "Raised"

\* The bottom right cell of a 3 x 2 board.
C14_WitnessInside ==
    /\ op = "get"
    /\ width(board) = 3 /\ height(board) = 2
    /\ arg = <<2, 1>>
    /\ pc = "Returned"
    /\ value = board[2][3]
    /\ value # board[1][1]

\* ------------------------------------------------------------------ C15

\* moves.py:32: enumerate_swaps on a board of the caller's.
CallEnumerateSwaps ==
    /\ pc = "Idle"
    /\ board' \in Boards
    /\ value' = enumerate_swaps(board')
    /\ op' = "enumerate_swaps"
    /\ pc' = "Returned"
    /\ UNCHANGED <<supplier, current, result, found, calls, rounds, cleared,
                   everCleared, lastStep, first, arg>>

EnumerateSpec == Init /\ [][CallEnumerateSwaps]_vars

\* The position of a cell in row-major order.
RowMajor(b, c) == c[2] * width(b) + c[1]

\* The pairs of orthogonally adjacent cells that both hold a gem, the
\* row-major-earlier cell first.
AdjacentGemPairs(b) ==
    {p \in Cells(b) \X Cells(b) :
        /\ \/ (p[2][1] = p[1][1] + 1 /\ p[2][2] = p[1][2])
           \/ (p[2][1] = p[1][1] /\ p[2][2] = p[1][2] + 1)
        /\ At(b, p[1]) # EMPTY
        /\ At(b, p[2]) # EMPTY}

\* C15: enumerate_swaps lists every pair of orthogonally adjacent non-EMPTY
\* cells exactly once and nothing else, ordered by source cell in row-major
\* order with the right neighbour before the down neighbour; a W x H board
\* without EMPTY cells has W*(H-1) + H*(W-1) swaps.
C15_EnumerateSwapsExact ==
    op = "enumerate_swaps" =>
        /\ \A k \in DOMAIN value : value[k] \in AdjacentGemPairs(board)
        /\ \A p \in AdjacentGemPairs(board) :
               Cardinality({k \in DOMAIN value : value[k] = p}) = 1
        /\ \A k \in 1..(Len(value) - 1) :
               \/ RowMajor(board, value[k][1]) < RowMajor(board, value[k + 1][1])
               \/ /\ value[k][1] = value[k + 1][1]
                  /\ value[k][2][2] = value[k][1][2]
                  /\ value[k + 1][2][1] = value[k + 1][1][1]
        /\ NoEmptyCell(board) =>
               Len(value) = width(board) * (height(board) - 1)
                            + height(board) * (width(board) - 1)

\* A full 3 x 3 board: 12 swaps, the first two from the top left cell.
C15_Witness ==
    /\ op = "enumerate_swaps"
    /\ width(board) = 3 /\ height(board) = 3
    /\ NoEmptyCell(board)
    /\ Len(value) = 12
    /\ value[1] = <<<<0, 0>>, <<1, 0>>>>
    /\ value[2] = <<<<0, 0>>, <<0, 1>>>>

\* A 3 x 3 board with an EMPTY centre: the four pairs through it are left
\* out.
C15_WitnessGap ==
    /\ op = "enumerate_swaps"
    /\ width(board) = 3 /\ height(board) = 3
    /\ EmptyCells(board) = {<<1, 1>>}
    /\ Len(value) = 8

\* ------------------------------------------------------------------ C16

\* The swaps a caller may pass for a board: any two of its cells, adjacent
\* or not, distinct or not, and a coordinate left of the board.
SwapsOf(b) ==
    (Cells(b) \cup {<<-1, 0>>}) \X (Cells(b) \cup {<<-1, 0>>})

\* moves.py:49: is_productive_swap on a board and a swap of the caller's.
CallIsProductiveSwap ==
    /\ pc = "Idle"
    /\ board' \in LoopBoards
    /\ arg' \in SwapsOf(board')
    /\ \E r \in {is_productive_swap(board', arg')} :
           /\ value' = IF r.status = "Raised" THEN None ELSE r.value
           /\ pc' = r.status
    /\ op' = "is_productive_swap"
    /\ UNCHANGED <<supplier, current, result, found, calls, rounds, cleared,
                   everCleared, lastStep, first>>

ProductiveSpec == Init /\ [][CallIsProductiveSwap]_vars

\* The board with the gems of cells p and q exchanged.
Exchanged(b, p, q) ==
    [row \in 1..height(b) |->
        [col \in 1..width(b) |->
            IF <<col - 1, row - 1>> = p THEN At(b, q)
            ELSE IF <<col - 1, row - 1>> = q THEN At(b, p)
            ELSE b[row][col]]]

\* C16: is_productive_swap returns false whenever an endpoint of the swap
\* is EMPTY; otherwise it returns true exactly when the board with the two
\* cells exchanged, and nothing else done to it, has a run of three; no
\* supplier is involved.
C16_ProductiveIffImmediateMatch ==
    (op = "is_productive_swap" /\ arg[1] \in Cells(board)
                               /\ arg[2] \in Cells(board)) =>
        /\ pc = "Returned"
        /\ value = IF At(board, arg[1]) = EMPTY \/ At(board, arg[2]) = EMPTY
                   THEN FALSE
                   ELSE Matched(Exchanged(board, arg[1], arg[2])) # {}
        /\ supplier = NoSupplier /\ calls = 0

\* An adjacent swap of two gems that completes a row of three.
C16_Witness ==
    /\ op = "is_productive_swap"
    /\ width(board) = 3 /\ height(board) = 2
    /\ arg = <<<<1, 0>>, <<1, 1>>>>
    /\ Matched(board) = {}
    /\ value = TRUE

\* A swap with an EMPTY endpoint that would complete a row of three: false.
C16_WitnessEmptyEndpoint ==
    /\ op = "is_productive_swap"
    /\ pc = "Returned"
    /\ arg[1] \in Cells(board) /\ arg[2] \in Cells(board)
    /\ At(board, arg[2]) = EMPTY
    /\ At(board, arg[1]) # EMPTY
    /\ Matched(board) = {}
    /\ Matched(Exchanged(board, arg[1], arg[2])) # {}
    /\ value = FALSE

\* ------------------------------------------------------------------ C17

\* moves.py:70-84: simulate_move on a board, a swap of two of its cells
\* (adjacent or not, holding gems or not) and a supplier of the caller's:
\* the swap is applied and the loop of resolve_cascades starts on the
\* swapped board.
SimBoards == {b \in Boards : width(b) * height(b) <= MaxSimCells}

CallSimulateMove ==
    /\ pc = "Idle"
    /\ board' \in SimBoards
    /\ arg' \in Cells(board') \X Cells(board')
    /\ supplier' \in AnySuppliers
    /\ current' = apply_swap(board', arg')
    /\ op' = "simulate_move"
    /\ pc' = "Scanning"
    /\ UNCHANGED <<result, found, calls, rounds, cleared, everCleared,
                   lastStep, first, value>>

SimulateNext == CallSimulateMove \/ Scan

SimulateSpec == Init /\ [][SimulateNext]_vars

\* The supplier as it was when the call was made.
SupplierAtCall == [supplier EXCEPT !.pos = 1]

\* C17: simulate_move exchanges the two cells of the swap, whatever they
\* are, leaves the other cells alone, and ends as resolve_cascades ends on
\* the exchanged board with the same supplier; for an exchange that leaves a
\* full board without a run, the result is the exchanged board and the
\* supplier is never called.
C17_SimulateIsSwapThenResolve ==
    op = "simulate_move" =>
        LET swapped == Exchanged(board, arg[1], arg[2])
            r == resolve_cascades(swapped, SupplierAtCall, rounds)
        IN  /\ rounds = 0 => current = swapped
            /\ r.state = pc
            /\ r.sup = supplier
            /\ pc = "Scanning" => r.board = current
            /\ pc = "Stable" => r.board = result
            /\ pc = "Raised" => result = NoBoard
            /\ (IsStableBoard(swapped) /\ rounds >= 1) =>
                   /\ pc = "Stable"
                   /\ result = swapped
                   /\ calls = 0
                   /\ supplier.pos = 1

\* A swap of two cells that are not adjacent, one of them EMPTY, resolved
\* over a clearing round to a board other than the exchanged one.
C17_Witness ==
    /\ op = "simulate_move"
    /\ pc = "Stable"
    /\ everCleared
    /\ At(board, arg[1]) = EMPTY
    /\ At(board, arg[2]) # EMPTY
    /\ arg[1][1] + 2 <= arg[2][1]
    /\ result # Exchanged(board, arg[1], arg[2])

\* An adjacent swap of two different gems on a full board of four cells
\* that makes no run: the exchanged board is returned.
C17_WitnessNoMatch ==
    /\ op = "simulate_move"
    /\ pc = "Stable"
    /\ width(board) = 4 /\ height(board) = 1
    /\ arg = <<<<0, 0>>, <<1, 0>>>>
    /\ result # board
    /\ result = Exchanged(board, arg[1], arg[2])
    /\ calls = 0

\* ------------------------------------------------------------------ C18

\* The operations that take a board.
Operations ==
    {"find_matches", "apply_gravity", "refill_board", "resolve_cascades",
     "enumerate_swaps", "is_productive_swap", "filter_productive_swaps",
     "simulate_move"}

FrameBoards == {b \in Boards : width(b) * height(b) <= MaxFrameCells}

\* The suppliers and the other argument a caller may pass to an operation.
SuppliersFor(name) ==
    IF name \in {"refill_board", "resolve_cascades", "simulate_move"}
    THEN AnySuppliers
    ELSE {NoSupplier}

ArgsFor(name, b) ==
    IF name \in {"is_productive_swap", "simulate_move"}
    THEN Cells(b) \X Cells(b)
    ELSE IF name = "filter_productive_swaps"
    THEN {enumerate_swaps(b)}
    ELSE {None}

\* The caller holds a board and calls an operation with it; the operation
\* has not run yet.
Pass ==
    /\ pc = "Idle"
    /\ op' \in Operations
    /\ board' \in FrameBoards
    /\ supplier' \in SuppliersFor(op')
    /\ arg' \in ArgsFor(op', board')
    /\ pc' = "Called"
    /\ UNCHANGED <<current, result, found, calls, rounds, cleared, everCleared,
                   lastStep, first, value>>

\* rules.py:26-32: builds a set; the board is only read.
RunFindMatches ==
    /\ pc = "Called" /\ op = "find_matches"
    /\ found' = find_matches(board)
    /\ pc' = "Returned"
    /\ UNCHANGED <<board, supplier, op, current, result, calls, rounds,
                   cleared, everCleared, lastStep, first, arg, value>>

\* gravity.py:21-37: builds new rows; the board is only read.
RunGravity ==
    /\ pc = "Called" /\ op = "apply_gravity"
    /\ result' = apply_gravity(board)
    /\ pc' = "Returned"
    /\ UNCHANGED <<board, supplier, op, current, found, calls, rounds, cleared,
                   everCleared, lastStep, first, arg, value>>

\* Variant: the supplied gems are written into the rows of the input.
RunRefillInPlace ==
    /\ pc = "Called" /\ op = "refill_board"
    /\ \E r \in {refill_board(board, supplier)} :
           /\ result' = r.rows
           /\ board' = IF r.status = "Raised" THEN board ELSE r.rows
           /\ supplier' = r.sup
           /\ calls' = r.calls
           /\ pc' = r.status
    /\ UNCHANGED <<op, current, found, rounds, cleared, everCleared, lastStep,
                   first, arg, value>>

\* refill.py:31-43: the gems are written into new_rows, a copy of the rows
\* (refill.py:33); the board is only read.
RunRefill ==
    /\ pc = "Called" /\ op = "refill_board"
    /\ \E r \in {refill_board(board, supplier)} :
           /\ result' = r.rows
           /\ supplier' = r.sup
           /\ calls' = r.calls
           /\ pc' = r.status
    /\ UNCHANGED <<board, op, current, found, rounds, cleared, everCleared,
                   lastStep, first, arg, value>>

\* cascade.py:35: current is bound to the board; the loop rebinds current
\* and never writes into a board.
RunResolve ==
    /\ pc = "Called" /\ op = "resolve_cascades"
    /\ current' = board
    /\ pc' = "Scanning"
    /\ UNCHANGED <<board, supplier, op, result, found, calls, rounds, cleared,
                   everCleared, lastStep, first, arg, value>>

\* moves.py:32-46
RunEnumerateSwaps ==
    /\ pc = "Called" /\ op = "enumerate_swaps"
    /\ value' = enumerate_swaps(board)
    /\ pc' = "Returned"
    /\ UNCHANGED <<board, supplier, op, current, result, found, calls, rounds,
                   cleared, everCleared, lastStep, first, arg>>

\* moves.py:49-61: the swap is applied to a new board.
RunIsProductiveSwap ==
    /\ pc = "Called" /\ op = "is_productive_swap"
    /\ \E r \in {is_productive_swap(board, arg)} :
           /\ value' = r.value
           /\ pc' = r.status
    /\ UNCHANGED <<board, supplier, op, current, result, found, calls, rounds,
                   cleared, everCleared, lastStep, first, arg>>

\* moves.py:64-67
RunFilterProductiveSwaps ==
    /\ pc = "Called" /\ op = "filter_productive_swaps"
    /\ \E r \in {filter_productive_swaps(board, arg)} :
           /\ value' = r.value
           /\ pc' = r.status
    /\ UNCHANGED <<board, supplier, op, current, result, found, calls, rounds,
                   cleared, everCleared, lastStep, first, arg>>

\* moves.py:83: the swap is applied to a new board, on which the loop runs.
RunSimulateMove ==
    /\ pc = "Called" /\ op = "simulate_move"
    /\ current' = apply_swap(board, arg)
    /\ pc' = "Scanning"
    /\ UNCHANGED <<board, supplier, op, result, found, calls, rounds, cleared,
                   everCleared, lastStep, first, arg, value>>

FrameNext ==
    \/ Pass
    \/ RunFindMatches
    \/ RunGravity
    \/ RunRefill
    \/ RunResolve
    \/ RunEnumerateSwaps
    \/ RunIsProductiveSwap
    \/ RunFilterProductiveSwaps
    \/ RunSimulateMove
    \/ Scan

FrameSpec == Init /\ [][FrameNext]_vars

\* C18: no step of an operation, whether it returns, fails or goes on,
\* changes the board that was passed in: it keeps its dimensions and the
\* gem of every cell.
C18_InputBoardUnchanged ==
    [][(pc \in {"Called", "Scanning"}) => (board' = board)]_vars

\* A refill that has returned a board other than the one passed in.
C18_Witness ==
    /\ op = "refill_board"
    /\ pc = "Returned"
    /\ calls >= 2
    /\ result # board

\* A simulate_move that failed in a refill after clearing a run.
C18_WitnessFailed ==
    /\ op = "simulate_move"
    /\ pc = "Raised"
    /\ everCleared

\* ------------------------------------------------------------------ C19

\* Every column of board a is, gem for gem from the top, the beginning of the
\* same column of board b, and b has no EMPTY cell: b is a with its gems
\* moved up and the gaps filled, no gem taken away.
SettledFrom(a, b) ==
    /\ SameShape(a, b)
    /\ NoEmptyCell(b)
    /\ \A x \in 0..(width(a) - 1) :
           SubSeq(Column(b, x), 1, Len(GemsOf(Column(a, x))))
               = GemsOf(Column(a, x))

\* C19: in resolve_cascades a scan that finds no run on a board with an
\* EMPTY cell is followed by gravity and refill with no cell cleared, and
\* then by another scan; the call returns only from a scan that finds
\* neither a run nor an EMPTY cell, returning the scanned board; cells are
\* cleared only after a scan that found a run, and then all of its cells.
C19_ScanDecidesTheRound ==
    [][(pc = "Scanning") =>
        /\ (Matched(current) = {} /\ ~NoEmptyCell(current)) =>
               /\ lastStep' = "settle"
               /\ cleared' = cleared
               /\ pc' \in {"Scanning", "Raised"}
               /\ (pc' = "Scanning") => SettledFrom(current, current')
        /\ (pc' = "Stable") =>
               /\ Matched(current) = {}
               /\ NoEmptyCell(current)
               /\ result' = current
        /\ (Matched(current) = {} /\ NoEmptyCell(current)) => (pc' = "Stable")
        /\ (cleared' # cleared \/ lastStep' = "clear") =>
               /\ Matched(current) # {}
               /\ cleared' = cleared + Cardinality(Matched(current))
        /\ (Matched(current) # {}) =>
               /\ lastStep' = "clear"
               /\ pc' \in {"Scanning", "Raised"}
      ]_vars

\* A board with gaps and no run, settled without clearing; the refill then
\* made a run, which a later round cleared before the call returned.
C19_Witness ==
    /\ op = "resolve_cascades"
    /\ Matched(board) = {}
    /\ ~NoEmptyCell(board)
    /\ everCleared
    /\ rounds >= 3
    /\ pc = "Stable"

\* The board of a first round that settled without clearing.
C19_WitnessSettle ==
    /\ op = "resolve_cascades"
    /\ rounds = 1
    /\ lastStep = "settle"
    /\ pc = "Scanning"
    /\ cleared = 0
    /\ calls >= 2

\* ------------------------------------------------------------------ C20

\* C20: a call of resolve_cascades or simulate_move fails exactly when a
\* value the supplier returned during it, in whichever round, is EMPTY; it
\* fails at that value, which is the last one asked for, and returns no
\* board; after the failure nothing more happens: no retry, no further
\* supplier call, no change of any state.
C20_EmptySupplyFailsTheCall ==
    /\ [](op \in {"resolve_cascades", "simulate_move"} =>
            /\ (pc = "Raised") <=> (\E k \in 1..calls : Supplied(k) = EMPTY)
            /\ (pc = "Raised") =>
                   /\ result = NoBoard
                   /\ calls >= 1
                   /\ Supplied(calls) = EMPTY
                   /\ \A k \in 1..(calls - 1) : Supplied(k) # EMPTY
                   /\ supplier.pos = (calls % Len(supplier.script)) + 1)
    /\ [][pc # "Raised"]_vars

\* resolve_cascades failing in a later round: the first round settled a gap
\* with a gem, a run was cleared, and the refill of a later round got EMPTY.
C20_Witness ==
    /\ op = "resolve_cascades"
    /\ pc = "Raised"
    /\ rounds >= 2
    /\ everCleared
    /\ calls >= 2

\* simulate_move failing in its first round, on the second supplier call.
C20_WitnessSimulate ==
    /\ op = "simulate_move"
    /\ pc = "Raised"
    /\ rounds = 1
    /\ calls = 2

\* ------------------------------------------------------------------ C21

\* The cells that are EMPTY once the runs of a board have been cleared: its
\* EMPTY cells and the cells of its runs.
EmptyAfterClearing(b) == EmptyCells(b) \cup Matched(b)

\* C21: when a call of resolve_cascades returns, the number of supplier
\* calls it made is the number of EMPTY cells of the board passed in plus the
\* sizes of the match sets cleared, round by round; every round that hands a
\* board to the next scan asked the supplier for exactly as many values as
\* the round's board had EMPTY cells after clearing, and that board has no
\* EMPTY cell.
C21_SupplierCallsAccounted ==
    /\ []((op = "resolve_cascades" /\ pc = "Stable") =>
            calls = Cardinality(EmptyCells(board)) + cleared)
    /\ [][(op = "resolve_cascades" /\ pc = "Scanning") =>
            /\ cleared' = cleared + Cardinality(Matched(current))
            /\ (pc' = "Scanning") =>
                   /\ calls' = calls
                               + Cardinality(EmptyAfterClearing(current))
                   /\ NoEmptyCell(current')
            /\ (pc' = "Stable") => (calls' = calls)
         ]_vars

\* A chain of cascades on a full board: at least two clearing rounds before
\* the call returned.
C21_Witness ==
    /\ op = "resolve_cascades"
    /\ pc = "Stable"
    /\ NoEmptyCell(board)
    /\ rounds >= 3
    /\ cleared >= 6
    /\ calls = cleared

\* A board passed in with gaps and a run: the first round refilled both.
C21_WitnessGaps ==
    /\ op = "resolve_cascades"
    /\ pc = "Stable"
    /\ ~NoEmptyCell(board)
    /\ Matched(board) # {}
    /\ calls > cleared
    /\ cleared >= 3

\* ------------------------------------------------------------------ C22

\* The runs of three of a board: three consecutive cells of a row or of a
\* column that hold the same gem.
RunsOfThree(b) ==
    {run \in {{<<c[1], c[2]>>, <<c[1] + 1, c[2]>>, <<c[1] + 2, c[2]>>} :
                  c \in Cells(b)}
              \cup {{<<c[1], c[2]>>, <<c[1], c[2] + 1>>, <<c[1], c[2] + 2>>} :
                  c \in Cells(b)} :
        /\ run \subseteq Cells(b)
        /\ \E gem \in Colours : \A c \in run : At(b, c) = gem}

\* C22: on a board where find_matches finds nothing, a swap of two distinct
\* cells for which is_productive_swap returns true leaves at least one of
\* the two swapped cells in the match set of the board after the swap; on a
\* board that has a run containing neither swapped cell, is_productive_swap
\* returns true for every swap of two cells that hold gems.
C22_ProductiveMatchTouchesSwap ==
    (op = "is_productive_swap" /\ arg[1] \in Cells(board)
                               /\ arg[2] \in Cells(board)) =>
        /\ (find_matches(board) = {} /\ arg[1] # arg[2] /\ value = TRUE) =>
               find_matches(apply_swap(board, arg)) \cap {arg[1], arg[2]}
                   # {}
        /\ (/\ At(board, arg[1]) # EMPTY
            /\ At(board, arg[2]) # EMPTY
            /\ \E run \in RunsOfThree(board) :
                   arg[1] \notin run /\ arg[2] \notin run) =>
               value = TRUE

\* A swap of two cells that are not adjacent, on a board without a run,
\* that completes a run.
C22_Witness ==
    /\ op = "is_productive_swap"
    /\ arg[1] \in Cells(board) /\ arg[2] \in Cells(board)
    /\ find_matches(board) = {}
    /\ (arg[1][1] - arg[2][1]) * (arg[1][1] - arg[2][1])
       + (arg[1][2] - arg[2][2]) * (arg[1][2] - arg[2][2]) > 1
    /\ value = TRUE

\* A board with a run, and a swap of two gems away from it that completes
\* nothing itself: the match set is the same before and after the swap.
C22_WitnessExistingRun ==
    /\ op = "is_productive_swap"
    /\ arg[1] \in Cells(board) /\ arg[2] \in Cells(board)
    /\ arg[1] # arg[2]
    /\ At(board, arg[1]) # EMPTY /\ At(board, arg[2]) # EMPTY
    /\ At(board, arg[1]) # At(board, arg[2])
    /\ Matched(board) # {}
    /\ Matched(board) \cap {arg[1], arg[2]} = {}
    /\ Matched(Exchanged(board, arg[1], arg[2])) = Matched(board)
    /\ value = TRUE

====
